---- MODULE Spec2Model ----
(***************************************************************************)
(* A model of db2odbc_fdw.c: the process-wide connection cache (a singly   *)
(* linked list of malloc'ed nodes), the connector (getConnection /         *)
(* closeConnection), the error classifier (extract_error and the retry     *)
(* decision of db2_BeginForeignScan) and the scan callbacks Begin,         *)
(* Iterate, ReScan and End.                                                *)
(*                                                                         *)
(* The ODBC driver is the environment.  Its handles are modelled by a      *)
(* table `handles`; a handle value is the index of its allocation.  The    *)
(* driver's answers (connect accepted or rejected, execute succeeded or    *)
(* failed with some diagnostic records, rows of the result set) are inputs *)
(* drawn from small sets.                                                  *)
(*                                                                         *)
(* A backend is single threaded: every callback runs to completion, so a   *)
(* callback is one action.  The callbacks of several scan nodes interleave *)
(* at callback granularity (nested scans).                                 *)
(***************************************************************************)
EXTENDS Integers, Sequences, FiniteSets, TLC

(***************************************************************************)
(* Bounds of the model.                                                    *)
(***************************************************************************)
MaxSessions == 2   \* scan nodes that can be live at the same time
MaxBegins == 1     \* db2_BeginForeignScan calls in a behaviour of Spec
MaxScans == 2      \* the same, in a behaviour of SpecNested and of SpecCache
MaxDiag == 2       \* diagnostic records the driver holds for one failure
MaxRows == 1       \* rows of a result set
MaxCols == 1       \* columns of a result set
MaxOpts == 3       \* options supplied by one statement

(***************************************************************************)
(* Program constants.                                                      *)
(***************************************************************************)
DSN_MAX_LEN == 128
ANYERROR == -1
RETRYNUMB == 2
NULL == 0

Sessions == 1..MaxSessions

Min(a, b) == IF a < b THEN a ELSE b

(***************************************************************************)
(* Text.  A C string is a sequence of one-character strings.               *)
(***************************************************************************)
Digits == {"0", "1", "2", "3", "4", "5", "6", "7", "8", "9"}

DigitVal(c) ==
    CASE c = "0" -> 0 [] c = "1" -> 1 [] c = "2" -> 2 [] c = "3" -> 3
      [] c = "4" -> 4 [] c = "5" -> 5 [] c = "6" -> 6 [] c = "7" -> 7
      [] c = "8" -> 8 [] c = "9" -> 9

RECURSIVE SkipSpace(_, _)
SkipSpace(s, i) ==
    IF i <= Len(s) /\ s[i] = " " THEN SkipSpace(s, i + 1) ELSE i

RECURSIVE AtolDigits(_, _, _)
AtolDigits(s, i, acc) ==
    IF i <= Len(s) /\ s[i] \in Digits
    THEN AtolDigits(s, i + 1, acc * 10 + DigitVal(s[i]))
    ELSE acc

(* atol(3): skip white space, take an optional sign, convert the longest   *)
(* run of decimal digits; 0 when there is none.  The tokens of the model   *)
(* are far from LONG_MAX.                                                  *)
atol(s) ==
    LET i == SkipSpace(s, 1)
    IN  IF i <= Len(s) /\ s[i] = "-" THEN 0 - AtolDigits(s, i + 1, 0)
        ELSE IF i <= Len(s) /\ s[i] = "+" THEN AtolDigits(s, i + 1, 0)
        ELSE AtolDigits(s, i, 0)

(* strncpy(dst, src, n) writes exactly n bytes of dst: the first           *)
(* min(strlen(src), n) characters of src, then NUL padding when src is     *)
(* shorter than n.                                                         *)
strncpy(src, n) ==
    [chars |-> SubSeq(src, 1, Min(Len(src), n)), padded |-> Len(src) < n]

(***************************************************************************)
(* Inputs.                                                                 *)
(***************************************************************************)
ShortDsn == <<"D", "1">>
Dsn127 == [i \in 1..(DSN_MAX_LEN - 1) |-> "a"]
Dsn128 == Dsn127 \o <<"b">>
DSNs == {ShortDsn, Dsn127, Dsn128}

UserIds == {10, 20}

(* The value of the "cached" option: <<>> when the option is absent (the   *)
(* C pointer is NULL), <<text>> when it is present.                        *)
NoToken == <<>>
Tokens == {<<"0">>, <<"x">>, <<"-", "1">>, <<"7">>, <<"7", "x">>}
CachedOpts == {NoToken} \cup {<<t>> : t \in Tokens}

Queries == {<<"S", "1">>}

(* The SQL data types SQLDescribeCol reports, and the texts and the        *)
(* uninitialised content of a column buffer.                               *)
SQLTypes ==
    {"SQL_DECIMAL", "SQL_NUMERIC", "SQL_REAL", "SQL_DOUBLE", "SQL_FLOAT",
     "SQL_INTEGER", "SQL_VARCHAR"}
PlainText == <<"a">>
TwoCommas == <<"1", ",", "2", ",", "3">>
Uninit == <<"?">>

NativeCodes == {-1, 7, 9}
RECURSIVE SeqsUpTo(_, _)
SeqsUpTo(S, n) ==
    IF n = 0 THEN {<<>>}
    ELSE LET R == SeqsUpTo(S, n - 1)
         IN  R \cup {Append(q, x) : q \in {r \in R : Len(r) = n - 1}, x \in S}
Diags == SeqsUpTo(NativeCodes, MaxDiag)

(***************************************************************************)
(* The world a callback works on: w.cache is the static pointer `cache`,   *)
(* w.heap the malloc'ed cache nodes (a node is the index of its malloc;    *)
(* free marks it), w.handles the driver's handle table, w.crashed whether  *)
(* the backend has been killed by a wild memory access.                    *)
(*                                                                         *)
(* sess[s] is scan node s: the position of its lifecycle, its fdw_state    *)
(* (db2PrivateData) and, for the properties, the statement handles its     *)
(* Begin allocated.  `last` records the latest callback: its arguments,    *)
(* the error it raised and, for a Begin, one entry per pass of the retry   *)
(* loop.  nbegins counts the Begin calls, uni holds the inputs of the      *)
(* behaviour.                                                              *)
(***************************************************************************)
VARIABLES cache, heap, handles, crashed, sess, last, nbegins, uni

vars == <<cache, heap, handles, crashed, sess, last, nbegins, uni>>

World ==
    [cache |-> cache, heap |-> heap, handles |-> handles, crashed |-> crashed,
     uaf |-> FALSE]

(***************************************************************************)
(* The ODBC driver.                                                        *)
(***************************************************************************)
ValidHandle(w, h, type) ==
    /\ h \in 1..Len(w.handles)
    /\ w.handles[h].type = type
    /\ w.handles[h].state # "freed"

(* SQLAllocHandle: a new handle under a valid parent.  Under a parent that *)
(* is no valid handle the call returns SQL_INVALID_HANDLE and leaves the   *)
(* output argument as it was (`old`).  A statement needs a connected       *)
(* connection.                                                             *)
SQLAllocHandle(w, type, parent, old) ==
    LET ok == CASE type = "ENV" -> TRUE
                [] type = "DBC" -> ValidHandle(w, parent, "ENV")
                [] type = "STMT" -> /\ ValidHandle(w, parent, "DBC")
                                    /\ w.handles[parent].state = "connected"
        rec == [type |-> type, state |-> "allocated", parent |-> parent,
                frees |-> 0, rows |-> 0, eof |-> FALSE]
    IN  IF ok
        THEN [w |-> [w EXCEPT !.handles = Append(@, rec)], h |-> Len(w.handles) + 1]
        ELSE [w |-> w, h |-> old]

(* SQLConnect on an allocated connection handle; `accept` is the data      *)
(* source's answer.                                                        *)
SQLConnect(w, dbc, accept) ==
    IF accept /\ ValidHandle(w, dbc, "DBC")
    THEN [w EXCEPT !.handles[dbc].state = "connected"]
    ELSE w

(* SQLDisconnect closes the connection and frees the statements that are   *)
(* still allocated on it.                                                  *)
SQLDisconnect(w, dbc) ==
    IF ValidHandle(w, dbc, "DBC") /\ w.handles[dbc].state = "connected"
    THEN [w EXCEPT !.handles =
            [k \in 1..Len(w.handles) |->
                IF k = dbc THEN [@[k] EXCEPT !.state = "allocated"]
                ELSE IF @[k].type = "STMT" /\ @[k].parent = dbc
                     THEN [@[k] EXCEPT !.state = "freed"]
                     ELSE @[k]]]
    ELSE w

(* SQLFreeHandle.  The driver refuses (SQL_ERROR, HY010) to free a         *)
(* connection handle that is still connected and an environment handle     *)
(* that still has connection handles: the handle stays valid.  `frees`     *)
(* counts the calls made on a handle.                                      *)
SQLFreeHandle(w, type, h) ==
    IF h \notin 1..Len(w.handles) THEN w
    ELSE LET counted == [w EXCEPT !.handles[h].frees = Min(@ + 1, 2)]
             refused ==
                \/ ~ValidHandle(w, h, type)
                \/ type = "DBC" /\ w.handles[h].state = "connected"
                \/ type = "ENV" /\ \E k \in 1..Len(w.handles) :
                                      /\ w.handles[k].type = "DBC"
                                      /\ w.handles[k].parent = h
                                      /\ w.handles[k].state # "freed"
         IN  IF refused THEN counted
             ELSE [counted EXCEPT !.handles[h].state = "freed"]

(* SQLExecDirect: on a statement that is no valid handle the call returns  *)
(* SQL_INVALID_HANDLE and there is no diagnostic record; on a valid one    *)
(* the data source answers with a result set of some rows or fails with    *)
(* some diagnostic records.                                                *)
ExecAnswers(w, stmt) ==
    IF ValidHandle(w, stmt, "STMT")
    THEN {[ok |-> TRUE, rows |-> n, diag |-> <<>>] : n \in uni.rows}
         \cup {[ok |-> FALSE, rows |-> 0, diag |-> d] : d \in uni.diags}
    ELSE {[ok |-> FALSE, rows |-> 0, diag |-> <<>>]}

SQLExecDirect(w, stmt, ans) ==
    IF ans.ok THEN [w EXCEPT !.handles[stmt].rows = ans.rows,
                             !.handles[stmt].eof = FALSE]
    ELSE w

(***************************************************************************)
(* extract_error: *outnative starts as ANYERROR; SQLGetDiagRec is called   *)
(* for record 1, 2, ... while it succeeds, and a record's native code is   *)
(* stored while *outnative is still ANYERROR.                              *)
(***************************************************************************)
RECURSIVE extract_error_loop(_, _, _)
extract_error_loop(diag, i, outnative) ==
    IF i > Len(diag) THEN outnative
    ELSE extract_error_loop(diag, i + 1,
            IF outnative = ANYERROR THEN diag[i] ELSE outnative)

extract_error(diag) == extract_error_loop(diag, 1, ANYERROR)

(***************************************************************************)
(* The connection cache.                                                   *)
(***************************************************************************)

(* strcmp(e->dsn_name, dsn) == 0.  e->dsn_name is a C string only when a   *)
(* NUL lies within its DSN_MAX_LEN bytes (e.nul); otherwise the comparison *)
(* runs on into the bytes that follow the name, which are no text of a     *)
(* data source name.                                                       *)
strcmp_eq(e, dsn) == e.nul /\ e.dsn_name = dsn

RECURSIVE findFrom(_, _, _, _)
findFrom(w, e, dsn, userId) ==
    IF e = NULL THEN NULL
    ELSE IF strcmp_eq(w.heap[e], dsn) /\ w.heap[e].userId = userId THEN e
    ELSE findFrom(w, w.heap[e].next, dsn, userId)

findConnection(w, dsn, userId) == findFrom(w, w.cache, dsn, userId)

(* The byte of malloc'ed memory that strncpy does not write (the last of   *)
(* dsn_name) holds whatever the allocator left there.                      *)
UninitBytes == {"zero", "nonzero"}

(* addNewConnection: malloc a node, strncpy the name into its first        *)
(* DSN_MAX_LEN - 1 bytes, set the fields, prepend.  `byte` is the content  *)
(* of the unwritten last byte of dsn_name.                                 *)
addNewConnection(w, dsn, userId, env, dbc, byte) ==
    LET cp == strncpy(dsn, DSN_MAX_LEN - 1)
        e  == [dsn_name |-> cp.chars, nul |-> cp.padded \/ byte = "zero",
               userId |-> userId, env |-> env, dbc |-> dbc,
               next |-> w.cache, freed |-> FALSE]
    IN  [w EXCEPT !.heap = Append(@, e), !.cache = Len(w.heap) + 1]

(* What the read of e->next yields once e has been freed: the value the    *)
(* node held, a null pointer (memory cleared by the allocator), or a wild  *)
(* pointer whose dereference kills the backend.                            *)
FreedReads == {"stale", "null", "wild"}

(* removeConnection: the for loop from node e on.  `prev` is the local     *)
(* variable of that name, which the loop never assigns.                    *)
RECURSIVE removeFrom(_, _, _, _)
removeFrom(w, prev, e, dbc) ==
    IF e = NULL THEN {w}
    ELSE IF w.heap[e].dbc = dbc
    THEN LET nxt == w.heap[e].next
             w1 == IF prev = NULL THEN [w EXCEPT !.cache = nxt]
                   ELSE [w EXCEPT !.heap[prev].next = nxt]
             w2 == SQLFreeHandle(w1, "DBC", w.heap[e].dbc)
             w3 == SQLFreeHandle(w2, "ENV", w.heap[e].env)
             w4 == [w3 EXCEPT !.heap[e].freed = TRUE, !.uaf = TRUE]
         IN  UNION {CASE r = "stale" -> removeFrom(w4, prev, nxt, dbc)
                      [] r = "null" -> {w4}
                      [] r = "wild" -> {[w4 EXCEPT !.crashed = TRUE]}
                    : r \in FreedReads}
    ELSE removeFrom(w, prev, w.heap[e].next, dbc)

(* removeConnection that leaves the cache as it is. *)
removeConnection_Keep(w, dbc) == {w}

removeConnection(w, dbc) == removeFrom(w, NULL, w.cache, dbc)

(***************************************************************************)
(* The connector.                                                          *)
(***************************************************************************)

(* getConnection that inserts the handles into the cache before it knows   *)
(* whether SQLConnect succeeded.                                           *)
getConnection_InsertOnFailure(w, data, dsn, userId, cached) ==
    LET d0 == [data EXCEPT !.cached = cached]
        e  == findConnection(w, dsn, userId)
    IN  IF e # NULL
        THEN {[w |-> w,
               data |-> [d0 EXCEPT !.env = w.heap[e].env, !.dbc = w.heap[e].dbc],
               error |-> "none", found |-> TRUE, inserted |-> FALSE]}
        ELSE LET a1 == SQLAllocHandle(w, "ENV", NULL, d0.env)
                 a2 == SQLAllocHandle(a1.w, "DBC", a1.h, d0.dbc)
                 d1 == [d0 EXCEPT !.env = a1.h, !.dbc = a2.h]
             IN  {[w |-> addNewConnection(IF ok THEN SQLConnect(a2.w, a2.h, TRUE)
                                          ELSE a2.w,
                                          dsn, userId, a1.h, a2.h, "zero"),
                   data |-> d1,
                   error |-> IF ok THEN "none" ELSE "UNABLE_TO_CONNECT",
                   found |-> FALSE, inserted |-> TRUE]
                  : ok \in BOOLEAN}

(* getConnection: the outcomes of one call.  data is the db2PrivateData of *)
(* the scan; the options have been resolved to dsn, cached and the         *)
(* invoking user.  An outcome carries the new world, the new data, the     *)
(* error raised ("none" if none) and what happened (found in the cache,    *)
(* inserted into it).                                                      *)
getConnection(w, data, dsn, userId, cached) ==
    LET d0 == [data EXCEPT !.cached = cached]
        e  == findConnection(w, dsn, userId)
    IN  IF e # NULL
        THEN {[w |-> w,
               data |-> [d0 EXCEPT !.env = w.heap[e].env, !.dbc = w.heap[e].dbc],
               error |-> "none", found |-> TRUE, inserted |-> FALSE]}
        ELSE LET a1 == SQLAllocHandle(w, "ENV", NULL, d0.env)
                 a2 == SQLAllocHandle(a1.w, "DBC", a1.h, d0.dbc)
                 d1 == [d0 EXCEPT !.env = a1.h, !.dbc = a2.h]
             IN  {[w |-> a2.w, data |-> d1, error |-> "UNABLE_TO_CONNECT",
                   found |-> FALSE, inserted |-> FALSE]}
                 \cup
                 (IF cached # NoToken
                  THEN {[w |-> addNewConnection(SQLConnect(a2.w, a2.h, TRUE),
                                                dsn, userId, a1.h, a2.h, b),
                         data |-> d1, error |-> "none",
                         found |-> FALSE, inserted |-> TRUE]
                        : b \in IF Len(dsn) < DSN_MAX_LEN - 1 THEN {"zero"}
                                ELSE UninitBytes}
                  ELSE {[w |-> SQLConnect(a2.w, a2.h, TRUE), data |-> d1,
                         error |-> "none", found |-> FALSE, inserted |-> FALSE]})

(* closeConnection that ignores data->cached. *)
closeConnection_Always(w, data) ==
    SQLFreeHandle(SQLFreeHandle(SQLDisconnect(w, data.dbc), "DBC", data.dbc),
                  "ENV", data.env)

(* closeConnection *)
closeConnection(w, data) ==
    IF data.cached = NoToken
    THEN SQLFreeHandle(SQLFreeHandle(SQLDisconnect(w, data.dbc), "DBC", data.dbc),
                       "ENV", data.env)
    ELSE w

(***************************************************************************)
(* The scan engine: db2_BeginForeignScan.                                  *)
(***************************************************************************)

(* The db2PrivateData that Begin pallocs: its fields are not set yet. *)
(* columnsbuf[i].isNumber, columnsbuf[i].buf and values[i] are isNumber[i], *)
(* buf[i] and values[i]; values[i] is NULL or i, a pointer to buf[i].       *)
NewData ==
    [env |-> NULL, dbc |-> NULL, stmt |-> NULL, no_columns |-> 0, cached |-> NoToken,
     isNumber |-> <<>>, buf |-> <<>>, values |-> <<>>]

(* lcached = atol(data->cached); if (lcached == 0) lcached = ANYERROR *)
lcachedOf(cached) ==
    LET lcached == atol(cached[1])
    IN  IF lcached = 0 THEN ANYERROR ELSE lcached

(* The end of the loop body after removeConnection: continue, break, or    *)
(* fall off the end of the body (which goes round the loop as well).       *)
RetryDecision(cached, native) ==
    LET lcached == lcachedOf(cached)
    IN  IF lcached = ANYERROR THEN "continue"
        ELSE IF lcached # native THEN "break"
        ELSE "continue"

(* One record of the log a Begin keeps of its attempts (not program        *)
(* state: what the claims speak about).  diag holds the diagnostic records *)
(* of a failed execute: `first` is the native code of the first of them    *)
(* (ANYERROR when there is none), `native` the code that extract_error     *)
(* hands to the retry decision.                                            *)
AttemptLog(g, connect, stmt, exec, diag, removed) ==
    [found |-> g.found, inserted |-> g.inserted, connect |-> connect,
     env |-> g.data.env, dbc |-> g.data.dbc, stmt |-> stmt,
     allocated |-> stmt # g.data.stmt,
     exec |-> exec, native |-> extract_error(diag),
     first |-> IF diag = <<>> THEN ANYERROR ELSE diag[1],
     removed |-> removed]

(* ExecFailed without the test of data->cached == NULL: a scan that is not *)
(* cache-eligible goes round the loop again.                               *)
ExecFailed_NoBreak(L, g, w, d, ans) ==
    {[L EXCEPT !.w = w, !.data = d, !.retry = L.retry + 1, !.ctl = "continue",
               !.log = Append(@, AttemptLog(g, IF g.found THEN "reused" ELSE "ok",
                                            d.stmt, "failed", ans.diag, FALSE))]}

(* The else branch of the loop body: SQLExecDirect has failed with the     *)
(* diagnostic records ans.diag.  L is the state of the loop, w and d the   *)
(* world and the data after SQLAllocHandle.                                *)
ExecFailed(L, g, w, d, ans) ==
    LET retry  == L.retry + 1
        native == extract_error(ans.diag)
        lg(removed) == Append(L.log, AttemptLog(g, IF g.found THEN "reused" ELSE "ok",
                                                d.stmt, "failed", ans.diag, removed))
    IN  IF d.cached = NoToken
        THEN {[L EXCEPT !.w = w, !.data = d, !.retry = retry, !.ctl = "break",
                        !.log = lg(FALSE)]}
        ELSE {[L EXCEPT !.w = w2, !.data = d, !.retry = retry, !.log = lg(TRUE),
                        !.ctl = IF w2.crashed THEN "crash"
                                ELSE RetryDecision(d.cached, native)]
              : w2 \in removeConnection(w, d.dbc)}

(* The body of the while loop: one attempt. *)
LoopBody(L, dsn, userId, cached) ==
    UNION {
        IF g.error # "none"
        THEN {[L EXCEPT !.w = g.w, !.data = g.data, !.ctl = "raise",
                        !.error = g.error, !.errarg = dsn,
                        !.log = Append(@, AttemptLog(g, "failed", g.data.stmt,
                                                     "none", <<>>, FALSE))]}
        ELSE LET a == SQLAllocHandle(g.w, "STMT", g.data.dbc, g.data.stmt)
                 d == [g.data EXCEPT !.stmt = a.h]
             IN  UNION {
                    IF ans.ok
                    THEN {[L EXCEPT !.w = SQLExecDirect(a.w, a.h, ans), !.data = d,
                                    !.failure = 0, !.ctl = "break",
                                    !.log = Append(@, AttemptLog(g,
                                                IF g.found THEN "reused" ELSE "ok",
                                                d.stmt, "ok", <<>>, FALSE))]}
                    ELSE ExecFailed(L, g, a.w, d, ans)
                    : ans \in ExecAnswers(a.w, a.h)}
        : g \in getConnection(L.w, L.data, dsn, userId, cached)}

(* while (retry < RETRYNUMB) { ... } *)
RECURSIVE BeginLoop(_, _, _, _)
BeginLoop(L, dsn, userId, cached) ==
    IF L.retry < RETRYNUMB
    THEN UNION {IF L2.ctl = "continue" THEN BeginLoop(L2, dsn, userId, cached)
                ELSE {L2}
                : L2 \in LoopBody(L, dsn, userId, cached)}
    ELSE {L}

(* The data source's answers to column introspection: SQLNumResultCols     *)
(* fails, or gives n columns and SQLDescribeCol fails at column `bad`, or  *)
(* gives n columns and SQLDescribeCol reports their data types (bad = 0).  *)
DescribeAnswers ==
    {[numcols |-> FALSE, n |-> 0, bad |-> 0, types |-> <<>>]}
    \cup {[numcols |-> TRUE, n |-> q[1], bad |-> q[2], types |-> <<>>]
          : q \in {r \in uni.cols \X (1..MaxCols) : r[2] <= r[1]}}
    \cup UNION {{[numcols |-> TRUE, n |-> n, bad |-> 0, types |-> t]
                 : t \in [1..n -> uni.types]} : n \in uni.cols}

(* The test of DataTypePtr that sets columnsbuf[i].isNumber. *)
IsNumberType(type) ==
    \/ type = "SQL_DECIMAL" \/ type = "SQL_NUMERIC" \/ type = "SQL_REAL"
    \/ type = "SQL_DOUBLE" \/ type = "SQL_FLOAT"

(* What follows the loop: the error of a failed execute, or column         *)
(* introspection, which allocates the buffer of every column and points    *)
(* values[i] at it.                                                        *)
AfterLoop(L, query) ==
    IF L.ctl \in {"raise", "crash"} THEN {L}
    ELSE IF L.failure = 1
    THEN {[L EXCEPT !.error = "EXEC_FAILED", !.errarg = query]}
    ELSE {IF ~da.numcols \/ (da.bad # 0 /\ da.bad <= da.n)
          THEN [L EXCEPT !.error = "DESCRIBE_FAILED", !.errarg = query,
                         !.data.no_columns = da.n]
          ELSE [L EXCEPT !.data.no_columns = da.n,
                         !.data.isNumber = [i \in 1..da.n |-> IsNumberType(da.types[i])],
                         !.data.buf = [i \in 1..da.n |-> Uninit],
                         !.data.values = [i \in 1..da.n |-> i],
                         !.types = da.types]
          : da \in DescribeAnswers}

(* All outcomes of one db2_BeginForeignScan in world w. *)
BeginOutcomes(w, dsn, userId, cached, query) ==
    LET L0 == [w |-> w, data |-> NewData, retry |-> 0, failure |-> 1,
               ctl |-> "continue", error |-> "none", errarg |-> <<>>, log |-> <<>>,
               types |-> <<>>]
    IN  UNION {AfterLoop(L, query) : L \in BeginLoop(L0, dsn, userId, cached)}

(***************************************************************************)
(* The option validator.                                                   *)
(***************************************************************************)

(* valid_options, without the sentinel that ends the array. *)
valid_options ==
    << [optname |-> "dsn", optcontext |-> "ForeignServerRelationId", required |-> TRUE],
       [optname |-> "cached", optcontext |-> "ForeignServerRelationId", required |-> FALSE],
       [optname |-> "sql_query", optcontext |-> "ForeignTableRelationId", required |-> TRUE],
       [optname |-> "username", optcontext |-> "UserMappingRelationId", required |-> TRUE],
       [optname |-> "password", optcontext |-> "UserMappingRelationId", required |-> TRUE] >>

(* The catalogs an option list can belong to: the three of valid_options   *)
(* and the foreign data wrapper itself.                                    *)
Contexts ==
    {"ForeignServerRelationId", "ForeignTableRelationId", "UserMappingRelationId",
     "ForeignDataWrapperRelationId"}

(* Option names a statement can supply: those of valid_options and one     *)
(* that is none of them.                                                   *)
OptNames == {"dsn", "cached", "sql_query", "username", "password", "host"}

OptionLists == SeqsUpTo(OptNames, MaxOpts)

(* The scan of valid_options for a supplied name, from entry k on: the     *)
(* index of the first entry of that name, 0 when the sentinel is reached.  *)
RECURSIVE Recognized(_, _)
Recognized(defname, k) ==
    IF k > Len(valid_options) THEN 0
    ELSE IF valid_options[k].optname = defname THEN k
    ELSE Recognized(defname, k + 1)

(* The first phase that accepts a recognized name in any context. *)
OptionValid_AnyContext(defname, context) == Recognized(defname, 1) # 0

(* First phase, one supplied option: valid when the first entry of its     *)
(* name belongs to the context.                                            *)
OptionValid(defname, context) ==
    LET k == Recognized(defname, 1)
    IN  k # 0 /\ valid_options[k].optcontext = context

(* db2odbc_fdw_validator: the error it raises, "none" when it returns. *)
db2odbc_fdw_validator(options_list, context) ==
    LET bad == {j \in 1..Len(options_list) : ~OptionValid(options_list[j], context)}
        missing == {k \in 1..Len(valid_options) :
                      /\ valid_options[k].required
                      /\ valid_options[k].optcontext = context
                      /\ \A j \in 1..Len(options_list) :
                            options_list[j] # valid_options[k].optname}
    IN  IF bad # {}
        THEN [error |-> "ERRCODE_FDW_INVALID_OPTION_NAME",
              errarg |-> <<options_list[CHOOSE j \in bad : \A i \in bad : j <= i]>>]
        ELSE IF missing # {}
        THEN [error |-> "ERRCODE_FDW_OPTION_NAME_NOT_FOUND",
              errarg |-> <<valid_options[CHOOSE k \in missing :
                                           \A i \in missing : k <= i].optname>>]
        ELSE [error |-> "none", errarg |-> <<>>]

(***************************************************************************)
(* The state machine.                                                      *)
(***************************************************************************)
NoCall ==
    [op |-> "none", s |-> 0, error |-> "none", errarg |-> <<>>, dsn |-> <<>>,
     userId |-> 0, cached |-> NoToken, query |-> <<>>, retry |-> 0, log |-> <<>>,
     uaf |-> FALSE, types |-> <<>>, fetch |-> "none", got |-> <<>>, row |-> <<>>,
     context |-> "", options |-> <<>>]

(* The inputs of a behaviour (uni): the data source names, users and      *)
(* "cached" options of the foreign tables that are scanned, the           *)
(* diagnostics the driver may report, the number of Begin calls, the rows *)
(* of a result set, the data types of its columns, the texts of its       *)
(* cells and whether a cell can be null.                                  *)
Inputs ==
    [dsns |-> {ShortDsn}, users |-> {10}, cached |-> CachedOpts,
     diags |-> Diags, begins |-> MaxBegins, rows |-> 0..MaxRows,
     cols |-> {MaxCols},
     types |-> {"SQL_VARCHAR"}, cells |-> {PlainText}, nulls |-> {FALSE},
     opts |-> {<<"dsn">>}, contexts |-> {"ForeignServerRelationId"}]

NestedInputs ==
    [dsns |-> {ShortDsn}, users |-> {10}, cached |-> {NoToken, <<<<"0">>>>},
     diags |-> {<<>>, <<7>>}, begins |-> MaxScans, rows |-> 0..MaxRows,
     cols |-> 0..MaxCols,
     types |-> {"SQL_VARCHAR"}, cells |-> {PlainText}, nulls |-> {FALSE},
     opts |-> {<<"dsn">>}, contexts |-> {"ForeignServerRelationId"}]

CacheInputs ==
    [dsns |-> DSNs, users |-> UserIds, cached |-> {NoToken, <<<<"0">>>>},
     diags |-> {<<>>}, begins |-> MaxScans, rows |-> 0..MaxRows,
     cols |-> {MaxCols},
     types |-> {"SQL_VARCHAR"}, cells |-> {PlainText}, nulls |-> {FALSE},
     opts |-> {<<"dsn">>}, contexts |-> {"ForeignServerRelationId"}]

RowInputs ==
    [dsns |-> {ShortDsn}, users |-> UserIds, cached |-> {NoToken},
     diags |-> {<<>>}, begins |-> MaxBegins, rows |-> {0, MaxRows + 1},
     cols |-> 0..MaxCols,
     types |-> SQLTypes, cells |-> {TwoCommas},
     nulls |-> BOOLEAN,
     opts |-> {<<"dsn">>}, contexts |-> {"ForeignServerRelationId"}]

RemoveInputs ==
    [dsns |-> {ShortDsn}, users |-> UserIds, cached |-> {<<<<"0">>>>},
     diags |-> {<<>>}, begins |-> MaxScans + 1, rows |-> {0},
     cols |-> {MaxCols},
     types |-> {"SQL_VARCHAR"}, cells |-> {PlainText}, nulls |-> {FALSE},
     opts |-> {<<"dsn">>}, contexts |-> {"ForeignServerRelationId"}]

NameInputs ==
    [dsns |-> {ShortDsn, Dsn127}, users |-> {10}, cached |-> {<<<<"0">>>>},
     diags |-> {<<>>}, begins |-> MaxScans, rows |-> {0},
     cols |-> {MaxCols},
     types |-> {"SQL_VARCHAR"}, cells |-> {PlainText}, nulls |-> {FALSE},
     opts |-> {<<"dsn">>}, contexts |-> {"ForeignServerRelationId"}]

OptionInputs ==
    [dsns |-> {ShortDsn}, users |-> {10}, cached |-> {NoToken},
     diags |-> {<<>>}, begins |-> MaxBegins, rows |-> 0..MaxRows,
     cols |-> {MaxCols},
     types |-> {"SQL_VARCHAR"}, cells |-> {PlainText}, nulls |-> {FALSE},
     opts |-> OptionLists, contexts |-> Contexts]

Start ==
    /\ cache = NULL
    /\ heap = <<>>
    /\ handles = <<>>
    /\ crashed = FALSE
    /\ sess = [s \in Sessions |->
                [state |-> "UNSTARTED", data |-> NewData, stmts |-> {}]]
    /\ last = NoCall
    /\ nbegins = 0

Init == Start /\ uni = Inputs

InitNested == Start /\ uni = NestedInputs

InitCache == Start /\ uni = CacheInputs

InitRows == Start /\ uni = RowInputs

InitOptions == Start /\ uni = OptionInputs

InitRemove == Start /\ uni = RemoveInputs

InitNames == Start /\ uni = NameInputs

Live(s) == sess[s].state \in {"DESCRIBED", "ITERATING", "DONE"}

SetWorld(w) ==
    /\ cache' = w.cache
    /\ heap' = w.heap
    /\ handles' = w.handles
    /\ crashed' = w.crashed

(* db2_BeginForeignScan on a scan node that holds no scan.  An error       *)
(* (ereport(ERROR)) leaves the callback at once: fdw_state is never set    *)
(* and the host never calls End for the node.                              *)
Begin(s) ==
    /\ ~crashed
    /\ ~Live(s)
    /\ \A t \in Sessions : t < s => Live(t)
    /\ nbegins < uni.begins
    /\ \E dsn \in uni.dsns, userId \in uni.users, cached \in uni.cached,
          query \in Queries :
         \E r \in BeginOutcomes(World, dsn, userId, cached, query) :
            /\ SetWorld(r.w)
            /\ sess' = [sess EXCEPT ![s] =
                  [state |-> IF r.error = "none" /\ ~r.w.crashed THEN "DESCRIBED"
                             ELSE "FAILED",
                   data |-> IF r.error = "none" /\ ~r.w.crashed THEN r.data
                            ELSE NewData,
                   stmts |-> IF r.error = "none" /\ ~r.w.crashed
                             THEN {r.log[i].stmt : i \in {j \in 1..Len(r.log) :
                                                            r.log[j].allocated}}
                             ELSE {}]]
            /\ last' = [NoCall EXCEPT !.op = "Begin", !.s = s, !.error = r.error,
                          !.errarg = r.errarg, !.dsn = dsn, !.userId = userId,
                          !.cached = cached, !.query = query, !.retry = r.retry,
                          !.log = r.log, !.uaf = r.w.uaf, !.types = r.types]
            /\ nbegins' = nbegins + 1
            /\ UNCHANGED uni

(* SQLFetch: on a statement that is no valid handle SQL_INVALID_HANDLE;    *)
(* otherwise the next row, SQL_NO_DATA_FOUND after the last one, or a      *)
(* failure.  Once the cursor is positioned after the end of the result     *)
(* set the answer is SQL_NO_DATA_FOUND.                                    *)
FetchAnswers(w, stmt) ==
    IF ~ValidHandle(w, stmt, "STMT") THEN {"error"}
    ELSE IF w.handles[stmt].eof THEN {"nodata"}
    ELSE IF w.handles[stmt].rows > 0 THEN {"row", "error"}
    ELSE {"nodata", "error"}

(* SQLFetch whose failure empties the connection cache. *)
SQLFetch_DropCache(w, stmt, f) ==
    CASE f = "row" -> [w EXCEPT !.handles[stmt].rows = @ - 1]
      [] f = "nodata" -> [w EXCEPT !.handles[stmt].eof = TRUE]
      [] f = "error" -> [w EXCEPT !.cache = NULL]

SQLFetch(w, stmt, f) ==
    CASE f = "row" -> [w EXCEPT !.handles[stmt].rows = @ - 1]
      [] f = "nodata" -> [w EXCEPT !.handles[stmt].eof = TRUE]
      [] f = "error" -> w

(* SQLGetData for one column of the current row: the column is null (the   *)
(* indicator is SQL_NULL_DATA and the buffer is left alone), or it holds a *)
(* text, or the call fails (neither buffer nor indicator is written).      *)
GetDataAnswers ==
    (IF TRUE \in uni.nulls THEN {[ok |-> TRUE, null |-> TRUE, text |-> <<>>]} ELSE {})
    \cup {[ok |-> TRUE, null |-> FALSE, text |-> t] : t \in uni.cells}
    \cup {[ok |-> FALSE, null |-> FALSE, text |-> <<>>]}

(* strrchr(t, c): the position of the last c in t, 0 (NULL) when there is  *)
(* none.                                                                   *)
strrchr(t, c) ==
    LET at == {i \in 1..Len(t) : t[i] = c}
    IN  IF at = {} THEN 0 ELSE CHOOSE i \in at : \A j \in at : j <= i

(* The loop that replaces one comma only. *)
ReplaceCommas_Once(t) ==
    IF strrchr(t, ",") # 0 THEN [t EXCEPT ![strrchr(t, ",")] = "."] ELSE t

(* while ((p = strrchr(values[i], ','))) *p = '.'; *)
RECURSIVE ReplaceCommas(_)
ReplaceCommas(t) ==
    IF strrchr(t, ",") # 0 THEN ReplaceCommas([t EXCEPT ![strrchr(t, ",")] = "."])
    ELSE t

(* StoreCell that never points values[i] back at the buffer. *)
StoreCell_KeepPointer(d, i, a) ==
    IF a.null THEN [d EXCEPT !.values[i] = NULL]
    ELSE [d EXCEPT !.buf[i] = IF d.isNumber[i] THEN ReplaceCommas(a.text) ELSE a.text]

(* The body of the column loop after a successful SQLGetData with answer   *)
(* a: the test of the indicator, the assignment of values[i] and the       *)
(* replacement of the commas.                                              *)
StoreCell(d, i, a) ==
    IF a.null THEN [d EXCEPT !.values[i] = NULL]
    ELSE [d EXCEPT !.values[i] = i,
                   !.buf[i] = IF d.isNumber[i] THEN ReplaceCommas(a.text) ELSE a.text]

(* The column loop from column i on; got holds the driver's answers so     *)
(* far.  When SQLGetData fails the indicator is an uninitialised local:    *)
(* the test of it goes either way, and on a numeric column whose buffer    *)
(* has never been written strrchr runs over uninitialised memory, which    *)
(* can kill the backend, before the error is raised.                       *)
RECURSIVE ColumnLoop(_, _, _, _)
ColumnLoop(w, d, i, got) ==
    IF i > d.no_columns
    THEN {[w |-> w, data |-> d, error |-> "none", got |-> got]}
    ELSE UNION {
            IF a.ok
            THEN ColumnLoop(w, StoreCell(d, i, a), i + 1, Append(got, a))
            ELSE {[w |-> w, data |-> d, error |-> "FETCH_FAILED",
                   got |-> Append(got, a)]}
                 \cup (IF d.isNumber[i] /\ d.buf[i] = Uninit
                       THEN {[w |-> [w EXCEPT !.crashed = TRUE], data |-> d,
                              error |-> "FETCH_FAILED", got |-> Append(got, a)]}
                       ELSE {})
            : a \in GetDataAnswers}

(* The cells handed to BuildTupleFromCStrings. *)
Tuple(d) ==
    [i \in 1..d.no_columns |->
        IF d.values[i] = NULL THEN [null |-> TRUE, text |-> <<>>]
        ELSE [null |-> FALSE, text |-> d.buf[d.values[i]]]]

(* db2_IterateForeignScan.  An error ends the scan: the host never calls   *)
(* the node again, and its db2PrivateData is no longer looked at.          *)
Iterate(s) ==
    /\ ~crashed
    /\ Live(s)
    /\ \E f \in FetchAnswers(World, sess[s].data.stmt) :
         LET w1 == SQLFetch(World, sess[s].data.stmt, f)
         IN  IF f = "row"
             THEN \E r \in ColumnLoop(w1, sess[s].data, 1, <<>>) :
                    /\ SetWorld(r.w)
                    /\ sess' = [sess EXCEPT
                                  ![s].state = IF r.error = "none" THEN "ITERATING"
                                               ELSE "FAILED",
                                  ![s].data = IF r.error = "none" THEN r.data
                                              ELSE NewData]
                    /\ last' = [NoCall EXCEPT !.op = "Iterate", !.s = s,
                                   !.fetch = f, !.error = r.error, !.got = r.got,
                                   !.row = IF r.error = "none" THEN Tuple(r.data)
                                           ELSE <<>>]
             ELSE /\ SetWorld(w1)
                  /\ sess' = [sess EXCEPT
                                ![s].state = IF f = "nodata" THEN "DONE" ELSE "FAILED",
                                ![s].data = IF f = "nodata" THEN @ ELSE NewData]
                  /\ last' = [NoCall EXCEPT !.op = "Iterate", !.s = s, !.fetch = f,
                                 !.error = IF f = "error" THEN "FETCH_FAILED"
                                           ELSE "none"]
    /\ UNCHANGED <<nbegins, uni>>

(* db2_ReScanForeignScan *)
ReScan(s) ==
    /\ ~crashed
    /\ Live(s)
    /\ last' = [NoCall EXCEPT !.op = "ReScan", !.s = s]
    /\ UNCHANGED <<cache, heap, handles, crashed, sess, nbegins, uni>>

(* db2_EndForeignScan *)
End(s) ==
    /\ ~crashed
    /\ Live(s)
    /\ LET data == sess[s].data
           w1 == SQLFreeHandle(World, "STMT", data.stmt)
       IN  SetWorld(closeConnection(w1, data))
    /\ sess' = [sess EXCEPT ![s].state = "ENDED"]
    /\ last' = [NoCall EXCEPT !.op = "End", !.s = s]
    /\ UNCHANGED <<nbegins, uni>>

(* db2odbc_fdw_validator, called for the option list of a statement that   *)
(* defines or alters a server, a table or a user mapping.  It reads and   *)
(* writes nothing but its arguments, so one call, ahead of the scans,      *)
(* stands for every call.                                                  *)
Validate ==
    /\ last = NoCall
    /\ \E options_list \in uni.opts, context \in uni.contexts :
         LET r == db2odbc_fdw_validator(options_list, context)
         IN  last' = [NoCall EXCEPT !.op = "Validate", !.error = r.error,
                         !.errarg = r.errarg, !.context = context,
                         !.options = options_list]
    /\ UNCHANGED <<cache, heap, handles, crashed, sess, nbegins, uni>>

Next ==
    \/ \E s \in Sessions : Begin(s) \/ Iterate(s) \/ ReScan(s) \/ End(s)
    \/ Validate

Spec == Init /\ [][Next]_vars

SpecNested == InitNested /\ [][Next]_vars

SpecCache == InitCache /\ [][Next]_vars

SpecRows == InitRows /\ [][Next]_vars

SpecOptions == InitOptions /\ [][Next]_vars

SpecRemove == InitRemove /\ [][Next]_vars

SpecNames == InitNames /\ [][Next]_vars

(***************************************************************************)
(* Vocabulary of the properties.                                           *)
(***************************************************************************)

(* The nodes linked from `cache`, head first. *)
RECURSIVE ListFrom(_)
ListFrom(e) == IF e = NULL THEN <<>> ELSE <<e>> \o ListFrom(heap[e].next)

CacheNodes == {ListFrom(cache)[i] : i \in 1..Len(ListFrom(cache))}

(* Executes attempted by the Begin whose log is given. *)
Execs(log) == Cardinality({i \in 1..Len(log) : log[i].exec # "none"})

LastBegin == last.op = "Begin"

(* Text that is an integer literal: an optional sign, then digits only. *)
IsIntegerText(t) ==
    LET from == IF Len(t) > 0 /\ t[1] \in {"-", "+"} THEN 2 ELSE 1
    IN  from <= Len(t) /\ \A i \in from..Len(t) : t[i] \in Digits

WildcardToken(t) == t = <<"0">> \/ ~IsIntegerText(t) \/ atol(t) = ANYERROR

C2_WildcardAlwaysRetried ==
    (/\ LastBegin /\ last.cached # NoToken /\ WildcardToken(last.cached[1])
     /\ Len(last.log) >= 1 /\ last.log[1].exec = "failed")
    => Len(last.log) = RETRYNUMB

(***************************************************************************)
(* C3: with a token that is the text of an integer k other than 0 and -1,  *)
(* a second attempt is made only if the native code the driver reports for *)
(* the failed execute (that of its first diagnostic record) is k; with any *)
(* other code, and with no record at all, the Begin fails with EXEC_FAILED *)
(* at once: no second attempt, no scan.                                    *)
(***************************************************************************)
SpecificToken(c) ==
    c # NoToken /\ IsIntegerText(c[1]) /\ atol(c[1]) \notin {0, ANYERROR}

C3_SpecificTokenRetriesOnlyOnMatch ==
    (/\ LastBegin /\ SpecificToken(last.cached)
     /\ Len(last.log) >= 1 /\ last.log[1].exec = "failed")
    => LET k == atol(last.cached[1])
       IN  /\ (Len(last.log) = 2 => last.log[1].first = k)
           /\ (last.log[1].first # k =>
                  /\ Len(last.log) = 1
                  /\ sess[last.s].state = "FAILED"
                  /\ last.error = "EXEC_FAILED")

(***************************************************************************)
(* C4: a Begin makes at most RETRYNUMB executes and at most RETRYNUMB      *)
(* calls of getConnection; when no execute succeeded it ends with          *)
(* EXEC_FAILED carrying the query text.                                    *)
(***************************************************************************)
C4_BoundedAttemptsThenExecFailed ==
    LastBegin =>
        /\ Execs(last.log) <= RETRYNUMB
        /\ Len(last.log) <= RETRYNUMB
        /\ ((\A i \in 1..Len(last.log) : last.log[i].exec # "ok") =>
                last.error = "EXEC_FAILED" /\ last.errarg = last.query)

(***************************************************************************)
(* C5: a cache-eligible Begin whose first execute failed and whose second  *)
(* execute succeeded has removed the old cache entry, has opened a new     *)
(* connection and inserted it, has retried once, and ...                   *)
(***************************************************************************)
C5_Case ==
    /\ LastBegin /\ last.cached # NoToken
    /\ Len(last.log) = 2
    /\ last.log[1].exec = "failed" /\ last.log[2].exec = "ok"

C5_Recovered ==
    /\ last.log[1].removed
    /\ \A e \in CacheNodes : heap[e].dbc # last.log[1].dbc
    /\ ~last.log[2].found /\ last.log[2].connect = "ok"
    /\ last.log[2].dbc # last.log[1].dbc
    /\ handles[last.log[2].dbc].state = "connected"
    /\ last.log[2].inserted
    /\ cache # NULL /\ heap[cache].dbc = last.log[2].dbc
    /\ heap[cache].env = last.log[2].env
    /\ heap[cache].userId = last.userId
    /\ last.retry = 1

(* C5 as the claim has it: ... the Begin completes in the DESCRIBED state   *)
(* on the new connection and no error surfaces.                            *)
C5_RetryAlwaysCompletes ==
    C5_Case =>
        /\ C5_Recovered
        /\ last.error = "none"
        /\ sess[last.s].state = "DESCRIBED"
        /\ sess[last.s].data.dbc = last.log[2].dbc

(* C5 as amended: ... the Begin goes on to column introspection on the new *)
(* connection; no error of the execute or of the connect surfaces, and     *)
(* when the introspection succeeds the Begin completes in the DESCRIBED    *)
(* state on the new connection.                                            *)
C5_RetryRecovers ==
    C5_Case =>
        /\ C5_Recovered
        /\ last.error \in {"none", "DESCRIBE_FAILED"}
        /\ (last.error = "none" =>
                /\ sess[last.s].state = "DESCRIBED"
                /\ sess[last.s].data.dbc = last.log[2].dbc
                /\ sess[last.s].data.stmt = last.log[2].stmt)

C5_Witness ==
    /\ C5_Case /\ last.cached = <<<<"7">>>> /\ last.log[1].native = 7
    /\ sess[last.s].state = "DESCRIBED"

(***************************************************************************)
(* C6: a cache-eligible Begin whose two executes failed ends with          *)
(* EXEC_FAILED, the cache holds no entry for its key, and no connection it *)
(* opened is still connected.                                              *)
(***************************************************************************)
C6_NothingLeftConnected ==
    (/\ LastBegin /\ last.cached # NoToken /\ Len(last.log) = 2
     /\ last.log[1].exec = "failed" /\ last.log[2].exec = "failed")
    => /\ last.error = "EXEC_FAILED"
       /\ findConnection(World, last.dsn, last.userId) = NULL
       /\ \A i \in 1..2 : ~last.log[i].found =>
              handles[last.log[i].dbc].state # "connected"

(***************************************************************************)
(* C7: when the last attempt of a Begin inserted a cache entry (and did    *)
(* not remove it), findConnection for its key returns an entry with the    *)
(* inserted handles; when it ended with removeConnection, findConnection   *)
(* for its key returns none.                                               *)
(***************************************************************************)
C7_FindAfterInsertAndRemove ==
    (LastBegin /\ Len(last.log) >= 1) =>
        LET a == last.log[Len(last.log)]
            e == findConnection(World, last.dsn, last.userId)
        IN  /\ (a.inserted /\ ~a.removed =>
                   e # NULL /\ heap[e].env = a.env /\ heap[e].dbc = a.dbc)
            /\ (a.removed => e = NULL)

(***************************************************************************)
(* C8: End of a scan that is not cache-eligible leaves its environment and *)
(* connection handles freed; End of a cache-eligible scan leaves both      *)
(* handles, and the cache, exactly as they were.                           *)
(***************************************************************************)
C8_EndReleasesByFlag ==
    [][last'.op = "End" =>
          LET d == sess[last'.s].data
          IN  IF d.cached = NoToken
              THEN /\ handles'[d.dbc].state = "freed"
                   /\ handles'[d.env].state = "freed"
              ELSE /\ handles'[d.dbc] = handles[d.dbc]
                   /\ handles'[d.env] = handles[d.env]
                   /\ cache' = cache /\ heap' = heap]_vars

C8_Witness ==
    /\ last.op = "End" /\ sess[last.s].data.cached # NoToken
    /\ handles[sess[last.s].data.dbc].state = "connected"
    /\ handles[sess[last.s].data.env].state = "allocated"
    /\ cache # NULL /\ heap[cache].dbc = sess[last.s].data.dbc

(***************************************************************************)
(* C9: no cache entry refers to a freed handle, and no getConnection hands *)
(* a freed handle out of the cache.                                        *)
(***************************************************************************)
C9_ReleasedHandlesNotReused ==
    /\ \A e \in CacheNodes : /\ handles[heap[e].dbc].state # "freed"
                             /\ handles[heap[e].env].state # "freed"
    /\ LastBegin => \A i \in 1..Len(last.log) :
            last.log[i].found => handles[last.log[i].dbc].state # "freed"

(***************************************************************************)
(* C10: when End returns, every statement handle that the scan's Begin     *)
(* allocated has been freed, by exactly one SQLFreeHandle.                 *)
(***************************************************************************)
C10_StatementsFreedOnce ==
    last.op = "End" =>
        \A h \in sess[last.s].stmts :
            handles[h].state = "freed" /\ handles[h].frees = 1

(***************************************************************************)
(* C11: an attempt whose SQLConnect is rejected, be it the first attempt   *)
(* or the reconnect of a retry, is the last attempt of its Begin, which    *)
(* ends with UNABLE_TO_CONNECT carrying the data source name; the attempt  *)
(* inserts nothing into the cache, and an attempt inserts only when the    *)
(* "cached" option is present and its connect succeeded.                   *)
(***************************************************************************)
C11_ConnectFailureIsFatal ==
    LastBegin =>
        \A i \in 1..Len(last.log) :
            /\ (last.log[i].connect = "failed" =>
                    /\ i = Len(last.log)
                    /\ last.log[i].exec = "none"
                    /\ last.error = "UNABLE_TO_CONNECT"
                    /\ last.errarg = last.dsn
                    /\ sess[last.s].state = "FAILED"
                    /\ ~last.log[i].inserted
                    /\ \A e \in CacheNodes : heap[e].dbc # last.log[i].dbc)
            /\ (last.log[i].inserted =>
                    last.cached # NoToken /\ last.log[i].connect = "ok")

C11_Witness ==
    /\ LastBegin /\ last.cached # NoToken /\ Len(last.log) = 2
    /\ last.log[1].exec = "failed" /\ last.log[2].connect = "failed"
    /\ last.error = "UNABLE_TO_CONNECT" /\ last.errarg = last.dsn

(***************************************************************************)
(* C12: on a scan whose Iterate has signalled end-of-data (state DONE,     *)
(* which ReScan leaves as it is), every later Iterate signals end-of-data  *)
(* again: it yields no row, raises no error and leaves the scan DONE.      *)
(***************************************************************************)
C12_EndOfDataSticks ==
    [][\A s \in Sessions :
          (sess[s].state = "DONE" /\ last'.op = "Iterate" /\ last'.s = s) =>
              /\ last'.fetch = "nodata"
              /\ last'.row = <<>>
              /\ last'.error = "none"
              /\ sess'[s].state = "DONE"]_vars

(* The latest callback is an Iterate that emitted a row. *)
RowEmitted == last.op = "Iterate" /\ last.fetch = "row" /\ last.error = "none"

(***************************************************************************)
(* C13: in every emitted row, cell i is null exactly when the indicator of *)
(* column i for that row was SQL_NULL_DATA; a cell that is not null is the *)
(* content of the column's buffer (also after a row in which the column    *)
(* was null), and a null cell carries no text (neither an empty string nor *)
(* what an earlier row left in the buffer).                                *)
(***************************************************************************)
C13_NullIffIndicator ==
    RowEmitted =>
        LET d == sess[last.s].data
        IN  /\ Len(last.row) = d.no_columns
            /\ Len(last.got) = d.no_columns
            /\ \A i \in 1..d.no_columns :
                  /\ last.row[i].null = last.got[i].null
                  /\ (last.got[i].null => last.row[i] = [null |-> TRUE, text |-> <<>>])
                  /\ (~last.got[i].null =>
                         /\ last.row[i].text = d.buf[i]
                         /\ Len(last.row[i].text) = Len(last.got[i].text))

C13_Witness ==
    /\ RowEmitted
    /\ \E i \in 1..Len(last.row) :
          /\ last.row[i].null
          /\ sess[last.s].data.buf[i] # Uninit

(***************************************************************************)
(* C14: Begin classifies a column as numeric exactly when its data type is *)
(* decimal, numeric, real, double or float; in every emitted row, a cell   *)
(* of a column so classified is the fetched text with every "," replaced   *)
(* by ".", and a cell of any other column is the fetched text.             *)
(***************************************************************************)
NumericFamily == {"SQL_DECIMAL", "SQL_NUMERIC", "SQL_REAL", "SQL_DOUBLE", "SQL_FLOAT"}

EveryCommaReplaced(t) == [i \in 1..Len(t) |-> IF t[i] = "," THEN "." ELSE t[i]]

C14_NumericNormalized ==
    /\ (LastBegin /\ sess[last.s].state = "DESCRIBED") =>
            /\ Len(last.types) = sess[last.s].data.no_columns
            /\ \A i \in 1..Len(last.types) :
                  sess[last.s].data.isNumber[i] = (last.types[i] \in NumericFamily)
    /\ RowEmitted =>
            \A i \in 1..Len(last.row) :
                ~last.got[i].null =>
                    last.row[i].text =
                        IF sess[last.s].data.isNumber[i]
                        THEN EveryCommaReplaced(last.got[i].text)
                        ELSE last.got[i].text

C14_Witness ==
    /\ RowEmitted
    /\ \E i \in 1..Len(last.row) :
          /\ sess[last.s].data.isNumber[i]
          /\ last.got[i].text = TwoCommas
          /\ last.row[i].text = <<"1", ".", "2", ".", "3">>

(***************************************************************************)
(* C15: for every context and every list of supplied option names the      *)
(* validator returns without error exactly when every required option of   *)
(* the context is supplied and every supplied name is in the allow-list of *)
(* the context; otherwise it raises "invalid option name", naming a        *)
(* supplied option outside the allow-list, or "option is required",        *)
(* naming a required option that is not supplied.                          *)
(***************************************************************************)
AllowList(context) ==
    CASE context = "ForeignServerRelationId" -> {"dsn", "cached"}
      [] context = "ForeignTableRelationId" -> {"sql_query"}
      [] context = "UserMappingRelationId" -> {"username", "password"}
      [] OTHER -> {}

RequiredKeys(context) == AllowList(context) \ {"cached"}

C15_ValidatorAcceptsIff ==
    last.op = "Validate" =>
        LET keys == {last.options[j] : j \in 1..Len(last.options)}
            allow == AllowList(last.context)
            required == RequiredKeys(last.context)
        IN  /\ (last.error = "none") = (required \subseteq keys /\ keys \subseteq allow)
            /\ last.error \in {"none", "ERRCODE_FDW_INVALID_OPTION_NAME",
                                "ERRCODE_FDW_OPTION_NAME_NOT_FOUND"}
            /\ (last.error = "ERRCODE_FDW_INVALID_OPTION_NAME" =>
                    last.errarg[1] \in keys \ allow)
            /\ (last.error = "ERRCODE_FDW_OPTION_NAME_NOT_FOUND" =>
                    keys \subseteq allow /\ last.errarg[1] \in required \ keys)

C15_Witness ==
    /\ last.op = "Validate" /\ last.context = "UserMappingRelationId"
    /\ last.options = <<"password", "username">> /\ last.error = "none"

(***************************************************************************)
(* C16: when the first execute of a cache-eligible Begin fails with a      *)
(* native code that the token classifies as not retry-eligible (the token  *)
(* is the text of an integer k other than 0 and -1, and neither the first  *)
(* diagnostic record nor the code handed to the decision is k), the Begin  *)
(* ends with EXEC_FAILED without having called removeConnection: the entry *)
(* of its connection is still in the cache and the connection is still     *)
(* connected.                                                              *)
(***************************************************************************)
C16_Case ==
    /\ LastBegin /\ SpecificToken(last.cached)
    /\ Len(last.log) >= 1 /\ last.log[1].exec = "failed"
    /\ last.log[1].first # atol(last.cached[1])
    /\ last.log[1].native # atol(last.cached[1])

C16_InvalidatedOnlyWhenRetryEligible ==
    C16_Case =>
        /\ Len(last.log) = 1
        /\ last.error = "EXEC_FAILED"
        /\ ~last.log[1].removed
        /\ \E e \in CacheNodes : heap[e].dbc = last.log[1].dbc
        /\ handles[last.log[1].dbc].state = "connected"

(***************************************************************************)
(* C17: a Begin that has called removeConnection and has not crashed       *)
(* leaves every cache entry of another connection in the cache, with its   *)
(* key and its handles, in the order the entries had, so that              *)
(* findConnection for every other key returns what it returned before.     *)
(***************************************************************************)
RECURSIVE ListIn(_, _)
ListIn(h, e) == IF e = NULL THEN <<>> ELSE <<e>> \o ListIn(h, h[e].next)

C17_RemoveKeepsOtherEntries ==
    [][(last'.op = "Begin" /\ ~crashed'
        /\ \E i \in 1..Len(last'.log) : last'.log[i].removed) =>
          LET gone == {last'.log[i].dbc : i \in {j \in 1..Len(last'.log) :
                                                    last'.log[j].removed}}
              kept == SelectSeq(ListIn(heap, cache), LAMBDA e : heap[e].dbc \notin gone)
              after == SelectSeq(ListIn(heap', cache'), LAMBDA e : e \in DOMAIN heap)
              w2 == [cache |-> cache', heap |-> heap', handles |-> handles',
                     crashed |-> crashed', uaf |-> FALSE]
          IN  /\ after = kept
              /\ \A i \in 1..Len(kept) :
                    /\ heap'[kept[i]].dsn_name = heap[kept[i]].dsn_name
                    /\ heap'[kept[i]].userId = heap[kept[i]].userId
                    /\ heap'[kept[i]].env = heap[kept[i]].env
                    /\ heap'[kept[i]].dbc = heap[kept[i]].dbc
              /\ \A dsn \in uni.dsns, userId \in uni.users :
                    <<dsn, userId>> # <<last'.dsn, last'.userId>> =>
                        findConnection(w2, dsn, userId) = findConnection(World, dsn, userId)]_vars

(***************************************************************************)
(* C18: while a scan is live (its Begin has returned, its End has not been *)
(* called) its environment and connection handles are not freed, whatever  *)
(* the Begin and End callbacks of other scans on the same key do.          *)
(***************************************************************************)
C18_LiveHandlesNotFreed ==
    \A s \in Sessions :
        Live(s) => /\ handles[sess[s].data.dbc].state # "freed"
                   /\ handles[sess[s].data.env].state # "freed"

(***************************************************************************)
(* C19: whatever scans have run, on data source names of at most 127       *)
(* characters, no two entries of the cache have the same data source name  *)
(* and the same user.                                                      *)
(***************************************************************************)
C19_NoDuplicateKeys ==
    \A e1, e2 \in CacheNodes :
        (heap[e1].dsn_name = heap[e2].dsn_name /\ heap[e1].userId = heap[e2].userId)
            => e1 = e2

(***************************************************************************)
(* C20: for every failed execute, the native code that extract_error hands *)
(* to the retry decision is that of the first diagnostic record the driver *)
(* holds, also when that code is -1, and -1 when the driver holds none.    *)
(***************************************************************************)
C20_NativeOfFirstRecord ==
    LastBegin =>
        \A i \in 1..Len(last.log) :
            last.log[i].exec = "failed" => last.log[i].native = last.log[i].first

(***************************************************************************)
(* C21: when a Begin without the "cached" option ends with EXEC_FAILED or  *)
(* DESCRIBE_FAILED, the environment, connection and statement handles it   *)
(* acquired have been released: none of them is still allocated or         *)
(* connected when the error propagates.                                    *)
(***************************************************************************)
C21_FatalExitReleasesHandles ==
    (/\ LastBegin /\ last.cached = NoToken
     /\ last.error \in {"EXEC_FAILED", "DESCRIBE_FAILED"})
    => \A i \in 1..Len(last.log) :
          /\ handles[last.log[i].env].state = "freed"
          /\ handles[last.log[i].dbc].state = "freed"
          /\ (last.log[i].allocated => handles[last.log[i].stmt].state = "freed")

(***************************************************************************)
(* C22: a Begin whose column introspection fails ends with DESCRIBE_FAILED *)
(* right after the execute that succeeded (no further attempt, no          *)
(* reconnect) and leaves the cache as its attempts left it; an Iterate     *)
(* whose SQLFetch fails ends with FETCH_FAILED, yields no row and changes  *)
(* neither the cache nor any handle; in both cases the scan is over, and a *)
(* scan that is over yields no row.                                        *)
(***************************************************************************)
C22_DescribeAndFetchFailuresFatal ==
    [][/\ (last'.op = "Begin" /\ last'.error = "DESCRIBE_FAILED") =>
             LET log == last'.log
                 n == Len(log)
             IN  /\ n >= 1 /\ log[n].exec = "ok"
                 /\ \A i \in 1..(n - 1) : log[i].exec = "failed"
                 /\ sess'[last'.s].state = "FAILED"
                 /\ ((\A i \in 1..n : ~log[i].inserted /\ ~log[i].removed) =>
                         cache' = cache /\ heap' = heap)
                 /\ (log[n].inserted =>
                         /\ cache' # NULL /\ heap'[cache'].dbc = log[n].dbc
                         /\ handles'[log[n].dbc].state = "connected")
                 /\ (log[n].found => handles'[log[n].dbc] = handles[log[n].dbc])
       /\ (last'.op = "Iterate" /\ last'.fetch = "error") =>
                 /\ last'.error = "FETCH_FAILED"
                 /\ last'.row = <<>>
                 /\ sess'[last'.s].state = "FAILED"
                 /\ cache' = cache /\ heap' = heap /\ handles' = handles
       /\ \A s \in Sessions :
             (sess[s].state = "FAILED" /\ last'.s = s /\ last'.op = "Iterate") =>
                 last'.row = <<>>]_vars

C22_Witness ==
    /\ last.op = "Iterate" /\ last.fetch = "error" /\ last.error = "FETCH_FAILED"
    /\ sess[last.s].state = "FAILED"
    /\ cache # NULL

(***************************************************************************)
(* C23: removeConnection, walking the list, never reads a field of an      *)
(* entry it has freed: no Begin ends with such a read having happened.     *)
(***************************************************************************)
C23_RemoveWalkReadsNoFreedEntry ==
    LastBegin => ~last.uaf

====
